---- MODULE Spec2Model ----
(***************************************************************************)
(* hass-favicon: a model of custom_components/favicon/__init__.py.         *)
(*                                                                         *)
(* Two specifications are given.                                           *)
(*   Spec      the lifecycle of the integration inside the host process:   *)
(*             async_setup, async_setup_entry, _update_listener,           *)
(*             async_unload_entry, async_remove_entry, and the host        *)
(*             serving index-page requests through IndexView.get_template. *)
(*             apply_hooks awaits the directory scan: a call is two steps, *)
(*             and other calls and requests run in between.                *)
(*   SpecFind  find_icons applied to directory listings drawn from a       *)
(*             bounded set of file names.                                  *)
(*                                                                         *)
(* Python strings that the code inspects character by character (file      *)
(* names, URL paths) are sequences of one-character strings.  A Python     *)
(* value that may be None is a sequence of length 0 (None) or 1.  A dict   *)
(* is a function whose DOMAIN is its set of keys.                          *)
(***************************************************************************)
EXTENDS Integers, Sequences, FiniteSets, Bags, TLC

VARIABLES
    hassData,       \* hass.data: None, or <<d>> with d = hass.data[DOMAIN]
    getTemplate,    \* frontend.IndexView.get_template (a function object)
    manifest,       \* frontend.MANIFEST_JSON: icons, name, short_name
    templateCache,  \* IndexView._template_cache: None, or <<template object>>
    repoMode,       \* host runs its front end from a repository: no template caching
    listeners,      \* how many times entry.add_update_listener(_update_listener) ran
    domainSetup,    \* async_setup has returned True in this process
    activated,      \* some apply_hooks call has run to completion in this process
    tasks,          \* the apply_hooks calls suspended at the await of line 116 (a bag)
    last,           \* the last operation, what it returned or raised, what it served
    scan            \* SpecFind: the input and the result of one find_icons call

vars == <<hassData, getTemplate, manifest, templateCache, repoMode, listeners,
          domainSetup, activated, tasks, last, scan>>

lifecycleVars == <<hassData, getTemplate, manifest, templateCache, repoMode,
                   listeners, domainSetup, activated, tasks, last>>

----------------------------------------------------------------------------
(* Bounds of the model. *)

\* longest directory listing given to find_icons in SpecFind
MaxDir == 3

\* most new_render wrappers stacked on the render method of one template object
MaxLayers == 3

\* most apply_hooks calls suspended at the same time
MaxTasks == 2

\* most update listeners registered on the entry
MaxListeners == 2

----------------------------------------------------------------------------
(* Python values. *)

None == <<>>

Some(v) == <<v>>

EmptyDict == [k \in {} |-> None]

Has(d, k) == k \in DOMAIN d

\* d[k] = v
Put(d, k, v) == [x \in (DOMAIN d) \cup {k} |-> IF x = k THEN v ELSE d[x]]

\* for key in keys: if key in d: del d[key]
Del(d, keys) == [x \in (DOMAIN d) \ keys |-> d[x]]

\* d.update(other)
Update(d, other) ==
    [x \in (DOMAIN d) \cup (DOMAIN other) |-> IF x \in DOMAIN other THEN other[x] ELSE d[x]]

\* d.get(k, None)
Get(d, k) == IF k \in DOMAIN d THEN Some(d[k]) ELSE None

\* bool(x) of an optional str: None and the empty string are falsy.  TruthySeq
\* is for a str held as a sequence of characters, TruthyStr for one held whole.
TruthySeq(opt) == opt # None /\ opt[1] # <<>>

TruthyStr(opt) == opt # None /\ opt[1] # ""

\* s.startswith(p)
StartsWith(s, p) == Len(s) >= Len(p) /\ SubSeq(s, 1, Len(p)) = p

----------------------------------------------------------------------------
(* const.py *)

CONF_TITLE == "title"

CONF_ICON_PATH == "icon_path"

CONF_ICON_COLOR == "launch_icon_color"

CONF_KEYS == {CONF_TITLE, CONF_ICON_PATH, CONF_ICON_COLOR}

----------------------------------------------------------------------------
(* String constants of __init__.py, and the file names and folders of the  *)
(* model's file system.                                                    *)

LOCAL_PREFIX == <<"/", "l", "o", "c", "a", "l", "/">>

LOCAL_SEG == <<"/", "l", "o", "c", "a", "l">>

WWW == <<"w", "w", "w">>

FAVICON_ICO == <<"f", "a", "v", "i", "c", "o", "n", ".", "i", "c", "o">>

APPLE_PREFIX == <<"f", "a", "v", "i", "c", "o", "n", "-", "a", "p", "p", "l", "e", "-">>

ICON_PREFIX == <<"f", "a", "v", "i", "c", "o", "n", "-">>

IMAGE_PNG == "image/png"

STATIC_FAVICON == <<"/", "s", "t", "a", "t", "i", "c", "/", "i", "c", "o", "n", "s", "/", "f", "a", "v", "i", "c", "o", "n", ".", "i", "c", "o">>

STATIC_APPLE == <<"/", "s", "t", "a", "t", "i", "c", "/", "i", "c", "o", "n", "s", "/", "f", "a", "v", "i", "c", "o", "n", "-", "a", "p", "p", "l", "e", "-", "1", "8", "0", "x", "1", "8", "0", ".", "p", "n", "g">>

HostIconSrc192 == <<"/", "s", "t", "a", "t", "i", "c", "/", "i", "c", "o", "n", "s", "/", "f", "a", "v", "i", "c", "o", "n", "-", "1", "9", "2", "x", "1", "9", "2", ".", "p", "n", "g">>

HostIconSrc512 == <<"/", "s", "t", "a", "t", "i", "c", "/", "i", "c", "o", "n", "s", "/", "f", "a", "v", "i", "c", "o", "n", "-", "5", "1", "2", "x", "5", "1", "2", ".", "p", "n", "g">>

NameApple180 == <<"f", "a", "v", "i", "c", "o", "n", "-", "a", "p", "p", "l", "e", "-", "1", "8", "0", "x", "1", "8", "0", ".", "p", "n", "g">>

NameAppleTouch == <<"f", "a", "v", "i", "c", "o", "n", "-", "a", "p", "p", "l", "e", "-", "t", ".", "p", "n", "g">>

NameIcon32 == <<"f", "a", "v", "i", "c", "o", "n", "-", "3", "2", "x", "3", "2", ".", "p", "n", "g">>

NameIcon192Jpg == <<"f", "a", "v", "i", "c", "o", "n", "-", "1", "9", "2", "x", "1", "9", "2", ".", "j", "p", "g">>

NameIconNoExt == <<"f", "a", "v", "i", "c", "o", "n", "-", "3", "2", "x", "3", "2", ".">>

NameIconNoDigits == <<"f", "a", "v", "i", "c", "o", "n", "-", "x", "3", "2", ".", "p", "n", "g">>

NameIconTail == <<"f", "a", "v", "i", "c", "o", "n", "-", "1", "x", "2", "x", "3", ".", "p", "n", "g">>

\* favicon-<U+0663><U+0662>x<U+FF11><U+FF12>.png: Arabic-Indic 32 by fullwidth 12
NameIconArabic == <<"f", "a", "v", "i", "c", "o", "n", "-", "U+0663", "U+0662", "x", "U+FF11", "U+FF12", ".", "p", "n", "g">>

\* favicon-<U+00B2>x<U+00B2>.png: superscript digits
NameIconSuper == <<"f", "a", "v", "i", "c", "o", "n", "-", "U+00B2", "x", "U+00B2", ".", "p", "n", "g">>

NameFaviconIcon == <<"f", "a", "v", "i", "c", "o", "n", ".", "i", "c", "o", "n">>

NameXFavicon == <<"x", "f", "a", "v", "i", "c", "o", "n", ".", "i", "c", "o">>

NameReadme == <<"r", "e", "a", "d", "m", "e", ".", "t", "x", "t">>

PathIcons == <<"/", "l", "o", "c", "a", "l", "/", "i", "c", "o", "n", "s", "/">>

PathBare == <<"/", "l", "o", "c", "a", "l", "/", "b">>

PathRoot == <<"/", "l", "o", "c", "a", "l", "/">>

PathMissing == <<"/", "l", "o", "c", "a", "l", "/", "m", "/">>

PathOther == <<"/", "o", "t", "h", "e", "r", "/", "p", "r", "e", "f", "i", "x">>

PathNoSlash == <<"/", "l", "o", "c", "a", "l">>

\* \d of a str pattern (no re.ASCII flag): every decimal digit of Unicode
\* (category Nd), not 0-9 alone.  Of these the model's alphabet holds the
\* ASCII, the Arabic-Indic (U+0660..U+0669) and the fullwidth (U+FF10..U+FF19)
\* digits.  A character outside ASCII is written by its code point.  U+00B2,
\* superscript two, is no decimal digit.
Digits ==
    {"0", "1", "2", "3", "4", "5", "6", "7", "8", "9",
     "U+0660", "U+0661", "U+0662", "U+0663", "U+0664",
     "U+0665", "U+0666", "U+0667", "U+0668", "U+0669",
     "U+FF10", "U+FF11", "U+FF12", "U+FF13", "U+FF14",
     "U+FF15", "U+FF16", "U+FF17", "U+FF18", "U+FF19"}

----------------------------------------------------------------------------
(* pathlib, with a path held as the string str() gives.  A Path drops      *)
(* empty and "." components, so a trailing slash does not matter.          *)

RECURSIVE PathParts(_, _, _)
PathParts(s, i, cur) ==
    LET part == IF cur = <<>> \/ cur = <<".">> THEN <<>> ELSE <<cur>>
    IN  IF i > Len(s) THEN part
        ELSE IF s[i] = "/" THEN part \o PathParts(s, i + 1, <<>>)
        ELSE PathParts(s, i + 1, Append(cur, s[i]))

RECURSIVE JoinParts(_)
JoinParts(parts) ==
    IF parts = <<>> THEN <<>> ELSE <<"/">> \o Head(parts) \o JoinParts(Tail(parts))

\* Path(path_str) for an absolute path_str
Path(path_str) == JoinParts(PathParts(path_str, 1, <<>>))

\* path / name, for a name that is one component
PathJoin(path, name) == path \o <<"/">> \o name

----------------------------------------------------------------------------
(* The two regular expressions, matched as re.search matches them.         *)

\* the length of the run of digits of s that starts at position i
RECURSIVE DigitRun(_, _)
DigitRun(s, i) ==
    IF i <= Len(s) /\ s[i] \in Digits THEN 1 + DigitRun(s, i + 1) ELSE 0

\* re.search(RE_APPLE, name), RE_APPLE = ^favicon-apple-
RE_APPLE(name) == StartsWith(name, APPLE_PREFIX)

\* re.search(RE_ICON, name), RE_ICON = ^favicon-(\d+x\d+)\..+ : None, or
\* <<group(1)>>.  \d+ is greedy and neither "x" nor "." is a digit, so the
\* match, if any, is unique.
RE_ICON(name) ==
    IF ~StartsWith(name, ICON_PREFIX) THEN None
    ELSE LET i  == Len(ICON_PREFIX) + 1
             d1 == DigitRun(name, i)
             j  == i + d1 + 1
             d2 == DigitRun(name, j)
             k  == j + d2
         IN  IF /\ d1 > 0
                /\ i + d1 <= Len(name) /\ name[i + d1] = "x"
                /\ d2 > 0
                /\ k <= Len(name) /\ name[k] = "."
                /\ k + 1 <= Len(name) /\ name[k + 1] # "\n"
             THEN Some(SubSeq(name, i, k - 1))
             ELSE None

----------------------------------------------------------------------------
(* find_icons *)

\* "www" + path_str[len("/local"):]
LocalPath(path_str) == WWW \o SubSeq(path_str, Len(LOCAL_SEG) + 1, Len(path_str))

\* ScanEntry with the first touch icon kept instead of the last
ScanEntryFirstApple(acc, path, fn) ==
    LET a1 == IF fn = FAVICON_ICO
              THEN [acc EXCEPT !.icons = Put(@, "favicon", PathJoin(path, fn))]
              ELSE acc
        a2 == IF RE_APPLE(fn) /\ ~Has(a1.icons, "apple")
              THEN [a1 EXCEPT !.icons = Put(@, "apple", PathJoin(path, fn))]
              ELSE a1
        icon == RE_ICON(fn)
    IN  IF icon # None
        THEN [a2 EXCEPT !.manifest =
                 Append(@, [src |-> PathJoin(path, fn), sizes |-> icon[1],
                            type |-> IMAGE_PNG])]
        ELSE a2

\* One pass of the loop body over directory entry fn: acc = [icons, manifest].
ScanEntry(acc, path, fn) ==
    LET a1 == IF fn = FAVICON_ICO
              THEN [acc EXCEPT !.icons = Put(@, "favicon", PathJoin(path, fn))]
              ELSE acc
        a2 == IF RE_APPLE(fn)
              THEN [a1 EXCEPT !.icons = Put(@, "apple", PathJoin(path, fn))]
              ELSE a1
        icon == RE_ICON(fn)
    IN  IF icon # None
        THEN [a2 EXCEPT !.manifest =
                 Append(@, [src |-> PathJoin(path, fn), sizes |-> icon[1],
                            type |-> IMAGE_PNG])]
        ELSE a2

RECURSIVE ScanLoop(_, _, _, _)
ScanLoop(acc, path, entries, i) ==
    IF i > Len(entries) THEN acc
    ELSE ScanLoop(ScanEntry(acc, path, entries[i]), path, entries, i + 1)

\* find_icons(hass, path_str) over file system fs (a dict from the folder's
\* path under the configuration directory to its entries in iterdir order;
\* iterdir raises OSError on a folder that is not there).  The result is
\* [raised, icons]: raised names the exception that escapes, "" for none.
find_icons(fs, path_opt) ==
    IF ~TruthySeq(path_opt) \/ ~StartsWith(path_opt[1], LOCAL_PREFIX)
    THEN [raised |-> "", icons |-> EmptyDict]
    ELSE LET path_str  == path_opt[1]
             localpath == LocalPath(path_str)
         IN  IF ~Has(fs, localpath)
             THEN [raised |-> "OSError", icons |-> EmptyDict]
             ELSE LET acc == ScanLoop([icons |-> EmptyDict, manifest |-> <<>>],
                                      Path(path_str), fs[localpath], 1)
                  IN  [raised |-> "",
                       icons  |-> IF acc.manifest # <<>>
                                  THEN Put(acc.icons, "manifest", acc.manifest)
                                  ELSE acc.icons]

----------------------------------------------------------------------------
(* The host (homeassistant.components.frontend), at the interface the      *)
(* integration uses: the function object IndexView.get_template, the       *)
(* template objects it returns, and MANIFEST_JSON.                         *)

\* A function object: the host's own get_template, or a closure _get_template
\* made by one apply_hooks call, with the icons, title and launch_icon_color
\* that call bound.  id tells closures apart (reference equality).
OrigGetTemplate ==
    [kind |-> "original", id |-> 0, icons |-> EmptyDict, title |-> None, color |-> None]

\* A list object: id is its identity, items its elements.
HostManifestIcons ==
    [id |-> 0,
     items |-> << [src |-> HostIconSrc192, sizes |-> <<"1", "9", "2", "x", "1", "9", "2">>,
                   type |-> IMAGE_PNG],
                  [src |-> HostIconSrc512, sizes |-> <<"5", "1", "2", "x", "5", "1", "2">>,
                   type |-> IMAGE_PNG] >>]

HostManifest ==
    [icons |-> HostManifestIcons, name |-> "Home Assistant", short_name |-> "Assistant"]

\* frontend.add_manifest_json_key(key, val)
add_manifest_json_key(m, key, val) == [m EXCEPT ![key] = val]

\* The least identity no live object of the given set carries.
FreshId(used) == CHOOSE n \in 1..(Cardinality(used) + 1) :
                    n \notin used /\ \A m \in 1..(n - 1) : m \in used

\* the list objects that are reachable: the manifest's and the cached original
LiveListIds(data_opt, m) ==
    {m.icons.id} \cup
    (IF data_opt # None /\ Has(data_opt[1], "manifest_icons")
     THEN {data_opt[1]["manifest_icons"].id} ELSE {})

\* lst.copy(): a new list object with the same elements
ListCopy(lst, used) == [id |-> FreshId(used), items |-> lst.items]

\* the function objects that are reachable: the installed one, the cached
\* original and the closures wrapped around a cached template's render
LiveFnIds(fn, cache) ==
    {fn.id} \cup (IF cache = None THEN {}
                  ELSE {cache[1].render[i].id : i \in 1..Len(cache[1].render)})

\* A template object is [render |-> layers]: layers are the new_render
\* closures stacked on the template's own render method, innermost first.
NewTemplate == [render |-> <<>>]

\* The host's own IndexView.get_template: the cached template object if
\* there is one, else a new one, cached unless the host runs from a
\* repository.  The result is [tpl, cache].
HostGetTemplate(cache, repo) ==
    IF cache # None THEN [tpl |-> cache[1], cache |-> cache]
    ELSE [tpl |-> NewTemplate, cache |-> IF repo THEN None ELSE Some(NewTemplate)]

----------------------------------------------------------------------------
(* Rendered text: a sequence of tokens.  A token is [k, s, u]: k its kind, *)
(* s a whole string, u a URL path as characters.                           *)

Lit(s) == [k |-> "text", s |-> s, u |-> <<>>]

\* <title>t</title>
TitleTag(t) == [k |-> "title", s |-> t, u |-> <<>>]

\* an occurrence of URL path u
Url(u) == [k |-> "url", s |-> "", u |-> u]

\* <link rel="mask-icon" href="/static/icons/mask-icon.svg" color="c">
MaskIcon(c) == [k |-> "mask-icon", s |-> c, u |-> <<>>]

\* <path fill="c"
PathFill(c) == [k |-> "path-fill", s |-> c, u |-> <<>>]

\* <body>
Body == [k |-> "body", s |-> "<body>", u |-> <<>>]

\* the <script type="module"> block of new_render, for title t
Script(t) == [k |-> "script", s |-> t, u |-> <<>>]

\* the values #(?:[0-9a-fA-F]{6}) matches, among those the documents carry
HexColors == {"#18BCF2", "#18bcf2", "#FF0000", "#000000"}

\* text.replace(old, new): every token equal to old becomes the tokens new
RECURSIVE Replace(_, _, _)
Replace(text, old, new) ==
    IF text = <<>> THEN <<>>
    ELSE (IF Head(text) = old THEN new ELSE <<Head(text)>>) \o Replace(Tail(text), old, new)

\* re.sub on the mask-icon link: the color of every match becomes c
SubMaskIcon(text, c) ==
    [i \in 1..Len(text) |->
        IF text[i].k = "mask-icon" /\ text[i].s \in HexColors THEN MaskIcon(c) ELSE text[i]]

\* re.sub(..., count=1) on <path fill="...": only the first match changes
SubFirstPathFill(text, c) ==
    LET hits == {i \in 1..Len(text) : text[i].k = "path-fill" /\ text[i].s \in HexColors}
    IN  IF hits = {} THEN text
        ELSE LET first == CHOOSE i \in hits : \A j \in hits : i <= j
             IN  [text EXCEPT ![first] = PathFill(c)]

\* new_render of the closure fn, applied to the text the wrapped render gave
new_render(fn, text) ==
    LET t1 == IF Has(fn.icons, "favicon")
              THEN Replace(text, Url(STATIC_FAVICON), <<Url(fn.icons["favicon"])>>)
              ELSE text
        t2 == IF Has(fn.icons, "apple")
              THEN Replace(t1, Url(STATIC_APPLE), <<Url(fn.icons["apple"])>>)
              ELSE t1
        t3 == IF TruthyStr(fn.title)
              THEN Replace(Replace(t2, TitleTag("Home Assistant"), <<TitleTag(fn.title[1])>>),
                           Body, <<Lit("\n"), Body, Script(fn.title[1])>>)
              ELSE t2
    IN  IF TruthyStr(fn.color)
        THEN SubFirstPathFill(SubMaskIcon(t3, fn.color[1]), fn.color[1])
        ELSE t3

\* tpl.render(...): the template's own render gives text, then each stacked
\* new_render is applied to what the one inside it returned
RECURSIVE Render(_, _, _)
Render(layers, n, text) ==
    IF n = 0 THEN text ELSE new_render(layers[n], Render(layers, n - 1, text))

\* The texts the host's own render produces, by request.
Docs ==
    [index |-> << Lit("<!DOCTYPE html><html><head>"), TitleTag("Home Assistant"),
                  Url(STATIC_FAVICON), Url(STATIC_APPLE), MaskIcon("#18bcf2"),
                  Lit("</head>"), Body, PathFill("#18BCF2"), PathFill("#18BCF2"),
                  Lit("</body></html>") >>,
     auth  |-> << Lit("<html>"), Url(STATIC_FAVICON), Url(STATIC_FAVICON),
                  TitleTag("Sign in"), Body, PathFill("none"), PathFill("#000000") >>]

----------------------------------------------------------------------------
(* Inputs of the lifecycle: the file system under the configuration        *)
(* directory, config entries, and the YAML section of the domain.          *)

\* www/icons holds all three kinds of icon, www/b a favicon and a touch icon
\* only; www/m does not exist.
HostFS ==
    (LocalPath(PathIcons) :> <<NameReadme, FAVICON_ICO, NameApple180, NameIcon32>>) @@
    (LocalPath(PathBare) :> <<NameAppleTouch, FAVICON_ICO>>)

\* a dict with the keys that are given
MkConf(t, p, c) ==
    LET d1 == IF t = None THEN EmptyDict ELSE Put(EmptyDict, CONF_TITLE, t[1])
        d2 == IF p = None THEN d1 ELSE Put(d1, CONF_ICON_PATH, p[1])
    IN  IF c = None THEN d2 ELSE Put(d2, CONF_ICON_COLOR, c[1])

\* entry.data: no key; a title, a folder with every kind of icon and a color;
\* a folder with no sized icon; a folder that is not there, with a title and a
\* color; an empty title and a folder outside /local/
Configs ==
    {EmptyDict,
     MkConf(Some("My Home"), Some(PathIcons), Some("#FF0000")),
     MkConf(None, Some(PathBare), None),
     MkConf(Some("My Home"), Some(PathMissing), Some("#FF0000")),
     MkConf(Some(""), Some(PathOther), None)}

\* config_entry.options
Options == {EmptyDict, MkConf(Some("From options"), None, None)}

\* The options flow of this integration stores its input in entry.data and
\* leaves entry.options as it is; one entry with options is kept.
Entries ==
    [data : Configs, options : {EmptyDict}]
    \cup [data : {MkConf(None, Some(PathBare), None)}, options : Options]

\* config.get(DOMAIN): nothing, or a section with keys
YamlSections == {EmptyDict, MkConf(Some("My Home"), Some(PathIcons), None)}

----------------------------------------------------------------------------
(* apply_hooks and remove_hooks, as functions of the state they read.      *)

\* CaptureOriginals without the "if not ... .get(...)" guards: every call
\* captures what the host holds now
CaptureAlways(d, fn, m) ==
    LET d1 == Put(d, "get_template", fn)
    IN  Put(d1, "manifest_icons", ListCopy(m.icons, LiveListIds(Some(d1), m)))

\* lines 29-32 of async_setup: capture the host's function and a copy of its
\* icon list into d, each only if d holds no truthy value under the key
CaptureOriginals(d, fn, m) ==
    LET d1 == IF ~Has(d, "get_template") THEN Put(d, "get_template", fn) ELSE d
    IN  IF ~Has(d1, "manifest_icons") \/ d1["manifest_icons"].items = <<>>
        THEN Put(d1, "manifest_icons", ListCopy(m.icons, LiveListIds(Some(d1), m)))
        ELSE d1

\* InvalidateTemplateCache with the cached template left in place
KeepTemplateCache(cache) == cache

\* lines 186-188: view._template_cache = None for every IndexView resource
InvalidateTemplateCache(cache) == None

\* InstalledIcons without the else branch: with no sized icon found the
\* manifest's icons stay as they are
InstalledIconsKept(icons, data, m) ==
    IF Has(icons, "manifest")
    THEN [raised |-> "",
          icons  |-> [id |-> FreshId(LiveListIds(Some(data), m)), items |-> icons["manifest"]]]
    ELSE [raised |-> "", icons |-> m.icons]

\* lines 190-193: the value installed under "icons".  The list find_icons
\* built is a new object; the cached original is copied.  raised is KeyError
\* when data holds no "manifest_icons".
InstalledIcons(icons, data, m) ==
    IF Has(icons, "manifest")
    THEN [raised |-> "",
          icons  |-> [id |-> FreshId(LiveListIds(Some(data), m)), items |-> icons["manifest"]]]
    ELSE IF ~Has(data, "manifest_icons") THEN [raised |-> "KeyError", icons |-> m.icons]
    ELSE [raised |-> "",
          icons  |-> ListCopy(data["manifest_icons"], LiveListIds(Some(data), m))]

\* lines 195-200: name and short_name
InstalledNames(m, title) ==
    IF TruthyStr(title)
    THEN add_manifest_json_key(add_manifest_json_key(m, "name", title[1]),
                               "short_name", title[1])
    ELSE add_manifest_json_key(add_manifest_json_key(m, "name", "Home Assistant"),
                               "short_name", "Assistant")

\* line 116-118: await hass.loop.run_in_executor(None, find_icons, hass,
\* config_data.get(CONF_ICON_PATH, None)), on the host's file system
ExecutorFindIcons(config_data) == find_icons(HostFS, Get(config_data, CONF_ICON_PATH))

\* the call never got to the executor job
NotScanned == [raised |-> "", icons |-> EmptyDict]

\* apply_hooks(hass, config_data) from the point where the await of line 116
\* has given found, the executor job's outcome, with hass.data.get(DOMAIN, {})
\* = data as line 122 reads it then, on the host state of that moment.
\* config_arg is None when the call passes no config_data (the parameter has
\* no default: TypeError at the call).  The result is the exception that
\* escapes ("" for none) and the host state the call leaves.
apply_hooks(data, config_arg, found) ==
    LET same == [raised |-> "", getTemplate |-> getTemplate,
                 templateCache |-> templateCache, manifest |-> manifest]
    IN  IF config_arg = None THEN [same EXCEPT !.raised = "TypeError"]
        ELSE
        LET config_data       == config_arg[1]
            title             == Get(config_data, CONF_TITLE)
            launch_icon_color == Get(config_data, CONF_ICON_COLOR)
            _get_template     == [kind  |-> "_get_template",
                                  id    |-> FreshId(LiveFnIds(getTemplate, templateCache)),
                                  icons |-> found.icons,
                                  title |-> title,
                                  color |-> launch_icon_color]
            installed         == InstalledIcons(found.icons, data, manifest)
            hooked            == [same EXCEPT !.getTemplate = _get_template,
                                              !.templateCache =
                                                  InvalidateTemplateCache(templateCache)]
        IN  IF found.raised # "" THEN [same EXCEPT !.raised = found.raised]
            ELSE IF installed.raised # "" THEN [hooked EXCEPT !.raised = installed.raised]
            ELSE [hooked EXCEPT !.manifest =
                     InstalledNames(add_manifest_json_key(manifest, "icons", installed.icons),
                                    title)]

\* RestoredGetTemplate with the installed function left in place
KeptGetTemplate(data) == getTemplate

\* line 208: the function remove_hooks puts back
RestoredGetTemplate(data) == data["get_template"]

\* remove_hooks reading the record with hass.data.get(DOMAIN): with no record
\* it returns True and changes nothing
remove_hooks_lenient(data_opt) ==
    LET same == [raised |-> "", getTemplate |-> getTemplate, manifest |-> manifest]
    IN  IF data_opt = None \/ ~Has(data_opt[1], "get_template") THEN same
        ELSE [same EXCEPT
                 !.getTemplate = data_opt[1]["get_template"],
                 !.manifest =
                     add_manifest_json_key(
                       add_manifest_json_key(
                         add_manifest_json_key(manifest, "icons",
                             ListCopy(data_opt[1]["manifest_icons"],
                                      LiveListIds(data_opt, manifest))),
                         "name", "Home Assistant"),
                       "short_name", "Assistant")]

\* remove_hooks(hass) with hass.data = data_opt
remove_hooks(data_opt) ==
    LET same == [raised |-> "", getTemplate |-> getTemplate, manifest |-> manifest]
    IN  IF data_opt = None \/ ~Has(data_opt[1], "get_template")
        THEN [same EXCEPT !.raised = "KeyError"]
        ELSE LET data     == data_opt[1]
                 unhooked == [same EXCEPT !.getTemplate = RestoredGetTemplate(data)]
             IN  IF ~Has(data, "manifest_icons") THEN [unhooked EXCEPT !.raised = "KeyError"]
                 ELSE [unhooked EXCEPT !.manifest =
                          add_manifest_json_key(
                            add_manifest_json_key(
                              add_manifest_json_key(manifest, "icons",
                                  ListCopy(data["manifest_icons"],
                                           LiveListIds(data_opt, manifest))),
                              "name", "Home Assistant"),
                            "short_name", "Assistant")]

----------------------------------------------------------------------------
(* The lifecycle. *)

\* last: op the operation, raised the exception that escaped it ("" for none),
\* ret whether it returned True, arg the configuration it was given; for a
\* request, doc the page asked for, via the new_render closures its template's
\* render went through and out the text it returned.  After a call of
\* async_setup_entry or _update_listener, which is then suspended in
\* apply_hooks, op names the call and ret is FALSE; when apply_hooks resumes
\* and ends, op is "apply_hooks".
NoResult == [op |-> "none", raised |-> "", ret |-> FALSE, arg |-> EmptyDict,
             doc |-> "", via |-> <<>>, out |-> <<>>]

IdleScan == [path |-> None, entries |-> <<>>, exists |-> FALSE, done |-> FALSE,
             icons |-> EmptyDict, raised |-> ""]

Init ==
    /\ hassData = None
    /\ getTemplate = OrigGetTemplate
    /\ manifest = HostManifest
    /\ templateCache = None
    /\ repoMode \in BOOLEAN
    /\ listeners = 0
    /\ domainSetup = FALSE
    /\ activated = FALSE
    /\ tasks = EmptyBag
    /\ last = NoResult
    /\ scan = IdleScan

\* hass.data.get(DOMAIN) or, after setdefault, the new empty dict
DomainData == IF hassData = None THEN EmptyDict ELSE hassData[1]

\* async_setup(hass, config) with config.get(DOMAIN) = conf.  With a section
\* that has keys, line 43 calls apply_hooks(hass): the call raises before the
\* coroutine starts, so nothing is awaited.
AsyncSetup(conf) ==
    LET captured == CaptureOriginals(DomainData, getTemplate, manifest)
    IN  /\ IF conf = EmptyDict
           THEN /\ hassData' = Some(captured)
                /\ domainSetup' = TRUE
                /\ last' = [NoResult EXCEPT !.op = "async_setup", !.ret = TRUE, !.arg = conf]
                /\ UNCHANGED <<getTemplate, manifest, templateCache, activated>>
           ELSE LET data == Update(Del(captured, CONF_KEYS), conf)
                IN  \E res \in {apply_hooks(data, None, NotScanned)} :
                    /\ hassData' = Some(data)
                    /\ getTemplate' = res.getTemplate
                    /\ templateCache' = res.templateCache
                    /\ manifest' = res.manifest
                    /\ activated' = (activated \/ res.raised = "")
                    /\ domainSetup' = (domainSetup \/ res.raised = "")
                    /\ last' = [NoResult EXCEPT !.op = "async_setup",
                                                !.arg = conf,
                                                !.raised = res.raised,
                                                !.ret = (res.raised = "")]
       /\ UNCHANGED <<repoMode, listeners, tasks, scan>>

\* _update_listener(hass, config_entry) on hass.data[DOMAIN] = d, as far as
\* the await of line 116: lines 67-71 rewrite the record from the entry's
\* options, line 72 copies entry.data and calls apply_hooks, which hands
\* find_icons to the executor and suspends.  The suspended call joins tasks.
UpdateFrom(d, entry, op) ==
    /\ BagCardinality(tasks) < MaxTasks
    /\ hassData' = Some(Update(Del(d, CONF_KEYS), entry.options))
    /\ tasks' = tasks (+) SetToBag({[config_data |-> entry.data]})
    /\ last' = [NoResult EXCEPT !.op = op]
    /\ UNCHANGED <<getTemplate, manifest, templateCache, activated>>

\* async_setup_entry(hass, entry), as far as the await of line 116.  The host
\* sets up an entry only after async_setup of the domain has returned True.
\* Line 51 adds one more listener to the entry on every call; what
\* add_update_listener returns is dropped.
AsyncSetupEntry(entry) ==
    /\ domainSetup
    /\ listeners < MaxListeners
    /\ listeners' = listeners + 1
    /\ UpdateFrom(DomainData, entry, "async_setup_entry")
    /\ UNCHANGED <<repoMode, domainSetup, scan>>

\* _update_listener(hass, config_entry), called by the host for a registered
\* listener when the entry changes, as far as the await of line 116
UpdateListener(entry) ==
    /\ listeners > 0
    /\ hassData # None
    /\ UpdateFrom(hassData[1], entry, "_update_listener")
    /\ UNCHANGED <<repoMode, listeners, domainSetup, scan>>

\* apply_hooks from the point where the await of line 116 resumes, for one of
\* the suspended calls, in any order: the executor job's result or exception
\* comes back, line 122 reads hass.data as it is now, lines 185-200 write the
\* host, and True goes back through _update_listener to the caller.
ApplyHooks(task) ==
    /\ BagIn(task, tasks)
    /\ \E found \in {ExecutorFindIcons(task.config_data)} :
       \E res \in {apply_hooks(DomainData, Some(task.config_data), found)} :
        /\ tasks' = tasks (-) SetToBag({task})
        /\ getTemplate' = res.getTemplate
        /\ templateCache' = res.templateCache
        /\ manifest' = res.manifest
        /\ activated' = (activated \/ res.raised = "")
        /\ last' = [NoResult EXCEPT !.op = "apply_hooks", !.arg = task.config_data,
                                    !.raised = res.raised, !.ret = (res.raised = "")]
    /\ UNCHANGED <<hassData, repoMode, listeners, domainSetup, scan>>

\* async_unload_entry(hass, entry): logs and returns True.  The listeners
\* line 51 added stay registered.
AsyncUnloadEntry ==
    /\ listeners > 0
    /\ last' = [NoResult EXCEPT !.op = "async_unload_entry", !.ret = TRUE]
    /\ UNCHANGED <<hassData, getTemplate, manifest, templateCache, repoMode,
                   listeners, domainSetup, activated, tasks, scan>>

\* async_remove_entry(hass, entry): return remove_hooks(hass).  Suspended
\* apply_hooks calls are not cancelled.
AsyncRemoveEntry ==
    \E res \in {remove_hooks(hassData)} :
        /\ getTemplate' = res.getTemplate
        /\ manifest' = res.manifest
        /\ last' = [NoResult EXCEPT !.op = "async_remove_entry", !.raised = res.raised,
                                    !.ret = (res.raised = "")]
        /\ UNCHANGED <<hassData, templateCache, repoMode, listeners, domainSetup,
                       activated, tasks, scan>>

\* The call of the installed function object fn by a request: [raised, tpl,
\* cache].  The host's own function returns its template; a closure
\* _get_template calls data["get_template"], then stacks its new_render on
\* the render attribute of the template object it got, which is the cached
\* object when the host caches.
CallGetTemplate(fn, data_opt, cache, repo) ==
    IF fn.kind = "original"
    THEN LET got == HostGetTemplate(cache, repo)
         IN  [raised |-> "", tpl |-> got.tpl, cache |-> got.cache]
    ELSE IF data_opt = None \/ ~Has(data_opt[1], "get_template")
    THEN [raised |-> "KeyError", tpl |-> NewTemplate, cache |-> cache]
    ELSE IF data_opt[1]["get_template"].kind # "original"
    THEN [raised |-> "RecursionError", tpl |-> NewTemplate, cache |-> cache]
    ELSE LET got     == HostGetTemplate(cache, repo)
             wrapped == [got.tpl EXCEPT !.render = Append(@, fn)]
         IN  [raised |-> "", tpl |-> wrapped,
              cache  |-> IF got.cache = None THEN None ELSE Some(wrapped)]

\* An index-page request: the host calls self.get_template() and renders the
\* template it returns; doc selects the text the host's own render produces.
\* The code sets no limit to the wrappers a cached template collects; the
\* model serves requests while the template has at most MaxLayers of them.
Request(doc) ==
    \E got \in {CallGetTemplate(getTemplate, hassData, templateCache, repoMode)} :
        /\ Len(got.tpl.render) <= MaxLayers
        /\ templateCache' = got.cache
        /\ last' = [NoResult EXCEPT
                       !.op = "request", !.raised = got.raised, !.doc = doc,
                       !.via = IF got.raised # "" THEN <<>> ELSE got.tpl.render,
                       !.out = IF got.raised # "" THEN <<>>
                               ELSE Render(got.tpl.render, Len(got.tpl.render), Docs[doc])]
        /\ UNCHANGED <<hassData, getTemplate, manifest, repoMode, listeners,
                       domainSetup, activated, tasks, scan>>

Next ==
    \/ \E conf \in YamlSections : AsyncSetup(conf)
    \/ \E entry \in Entries : AsyncSetupEntry(entry)
    \/ \E entry \in Entries : UpdateListener(entry)
    \/ \E task \in BagToSet(tasks) : ApplyHooks(task)
    \/ AsyncUnloadEntry
    \/ AsyncRemoveEntry
    \/ \E doc \in DOMAIN Docs : Request(doc)

Spec == Init /\ [][Next]_vars

----------------------------------------------------------------------------
(* SpecFind: find_icons on directory listings. *)

Names == {FAVICON_ICO, NameApple180, NameAppleTouch, NameIcon32, NameIcon192Jpg,
          NameIconNoExt, NameIconNoDigits, NameIconTail, NameIconArabic,
          NameIconSuper, NameFaviconIcon, NameXFavicon, NameReadme}

\* the listings of at most MaxDir entries; a directory holds no name twice
Listings ==
    UNION {{l \in [1..n -> Names] : \A i, j \in 1..n : i # j => l[i] # l[j]} : n \in 0..MaxDir}

FindPaths == {None, Some(PathOther), Some(PathNoSlash), Some(PathIcons), Some(PathBare),
              Some(PathRoot)}

InitFind ==
    /\ hassData = None
    /\ getTemplate = OrigGetTemplate
    /\ manifest = HostManifest
    /\ templateCache = None
    /\ repoMode = FALSE
    /\ listeners = 0
    /\ domainSetup = FALSE
    /\ activated = FALSE
    /\ tasks = EmptyBag
    /\ last = NoResult
    /\ \E p \in FindPaths, l \in Listings, e \in BOOLEAN :
          /\ (~e => l = <<>>)
          /\ scan = [IdleScan EXCEPT !.path = p, !.entries = l, !.exists = e]

\* the file system of one scan: the folder of scan.path, if it exists
ScanFS ==
    IF scan.exists /\ scan.path # None
    THEN (LocalPath(scan.path[1]) :> scan.entries)
    ELSE EmptyDict

\* run find_icons on the input
FindIcons ==
    /\ ~scan.done
    /\ LET res == find_icons(ScanFS, scan.path)
       IN  scan' = [scan EXCEPT !.done = TRUE, !.icons = res.icons, !.raised = res.raised]
    /\ UNCHANGED lifecycleVars

NextFind == FindIcons

SpecFind == InitFind /\ [][NextFind]_vars

----------------------------------------------------------------------------
(* Properties. *)

DefaultNames(m) == m.name = "Home Assistant" /\ m.short_name = "Assistant"

\* C1: after one or more activations, a removal returns True and leaves
\* IndexView.get_template the very function the host had before the first
\* activation, the manifest's icons equal to the host's own list, and name and
\* short_name "Home Assistant" and "Assistant".
RemovalRestoresHost ==
    (last.op = "async_remove_entry" /\ activated) =>
        /\ last.raised = "" /\ last.ret
        /\ getTemplate = OrigGetTemplate
        /\ manifest.icons.items = HostManifestIcons.items
        /\ DefaultNames(manifest)

\* a removal just ran, after activations that changed the icons and the
\* names, and with a wrapped template still in the host's cache
RemovalRestoresHostWitness ==
    /\ last.op = "async_remove_entry" /\ activated /\ last.raised = ""
    /\ templateCache # None /\ Len(templateCache[1].render) >= 2
    /\ Has(templateCache[1].render[1].icons, "manifest")
    /\ TruthyStr(templateCache[1].render[1].title)

\* C2: in every state the cached "get_template" is the host's own function,
\* never a closure, and the cached "manifest_icons" holds the host's own icons
\* in a list object of its own, whatever has run since the capture.
CapturedOriginalsAreKept ==
    hassData # None =>
        /\ Has(hassData[1], "get_template") => hassData[1]["get_template"] = OrigGetTemplate
        /\ Has(hassData[1], "manifest_icons") =>
              /\ hassData[1]["manifest_icons"].items = HostManifestIcons.items
              /\ hassData[1]["manifest_icons"].id # manifest.icons.id

\* async_setup ran again while a closure was installed and the manifest held
\* discovered icons
CapturedOriginalsAreKeptWitness ==
    /\ last.op = "async_setup" /\ last.ret /\ activated
    /\ getTemplate.kind = "_get_template"
    /\ manifest.icons.items # HostManifestIcons.items
    /\ Has(hassData[1], "get_template") /\ Has(hassData[1], "manifest_icons")

\* C3: two successive requests for the same page under one installed closure
\* return the same text.
SameTextEveryRequest ==
    [][(/\ last.op = "request" /\ last'.op = "request"
        /\ last.raised = "" /\ last'.raised = ""
        /\ getTemplate.kind = "_get_template" /\ getTemplate' = getTemplate
        /\ last'.doc = last.doc)
       => last'.out = last.out]_vars

\* the folder last.arg names is under /local/ and cannot be read
ScanFailed(config_data) ==
    /\ Has(config_data, CONF_ICON_PATH)
    /\ StartsWith(config_data[CONF_ICON_PATH], LOCAL_PREFIX)
    /\ ~Has(HostFS, LocalPath(config_data[CONF_ICON_PATH]))

\* C4: an activation whose folder cannot be read completes and returns True,
\* with a closure installed that holds no icons and the title and color given,
\* and with the manifest names set from the title.
ScanFailureIsNotFatal ==
    (last.op = "apply_hooks" /\ ScanFailed(last.arg)) =>
        /\ last.raised = "" /\ last.ret
        /\ getTemplate.kind = "_get_template"
        /\ getTemplate.icons = EmptyDict
        /\ getTemplate.title = Get(last.arg, CONF_TITLE)
        /\ getTemplate.color = Get(last.arg, CONF_ICON_COLOR)
        /\ TruthyStr(getTemplate.title) => manifest.name = getTemplate.title[1]

\* C5: when an activation completes, whatever ran before it or while it was
\* suspended, the manifest's icons are the list its scan found if it found a
\* sized icon, else a copy of the cached original list; name and short_name
\* are its title if one is set, else the defaults.
ManifestFollowsActivation ==
    (last.op = "apply_hooks" /\ last.raised = "") =>
        LET found == ExecutorFindIcons(last.arg)
            title == Get(last.arg, CONF_TITLE)
            kept  == hassData[1]["manifest_icons"]
        IN  /\ IF Has(found.icons, "manifest")
               THEN manifest.icons.items = found.icons["manifest"]
               ELSE manifest.icons.items = kept.items /\ manifest.icons.id # kept.id
            /\ IF TruthyStr(title)
               THEN manifest.name = title[1] /\ manifest.short_name = title[1]
               ELSE DefaultNames(manifest)

\* an activation that found no sized icon and set no title just completed,
\* after an earlier one had run (its closure is the second made) and with
\* another one still suspended
ManifestFollowsActivationWitness ==
    /\ last.op = "apply_hooks" /\ last.raised = ""
    /\ tasks # EmptyBag
    /\ Has(last.arg, CONF_ICON_PATH) /\ last.arg[CONF_ICON_PATH] = PathBare
    /\ ~Has(last.arg, CONF_TITLE)
    /\ getTemplate.id = 2
    /\ manifest.icons.items = HostManifestIcons.items

\* C6: when an activation completes, the installed closure holds that
\* activation's icons, title and color and the host has no cached template;
\* a request served while a closure is installed went through that closure's
\* new_render and no other: every wrapper on the render method of the
\* template it used was made by the installed closure.
RequestsUseCurrentActivation ==
    /\ (last.op = "apply_hooks" /\ last.raised = "") =>
          /\ getTemplate.kind = "_get_template"
          /\ getTemplate.icons = ExecutorFindIcons(last.arg).icons
          /\ getTemplate.title = Get(last.arg, CONF_TITLE)
          /\ getTemplate.color = Get(last.arg, CONF_ICON_COLOR)
          /\ templateCache = None
    /\ (last.op = "request" /\ last.raised = "" /\ getTemplate.kind = "_get_template") =>
          /\ last.via # <<>>
          /\ \A i \in 1..Len(last.via) : last.via[i] = getTemplate
          /\ templateCache # None => templateCache[1].render = last.via

\* a request was served from the host's cache under a second activation
RequestsUseCurrentActivationWitness ==
    /\ last.op = "request" /\ last.raised = ""
    /\ getTemplate.kind = "_get_template" /\ getTemplate.id = 2
    /\ templateCache # None
    /\ last.out # Docs[last.doc]

\* the web path of file name under folder path_str: the folder, one slash,
\* the name
WebPath(path_str, name) ==
    IF path_str[Len(path_str)] = "/" THEN path_str \o name ELSE path_str \o <<"/">> \o name

AllDigits(s) == s # <<>> /\ \A i \in 1..Len(s) : s[i] \in Digits

\* the ways name reads as favicon-<digits>x<digits>.<ext>: the positions of
\* the x and of the dot
SizedAs(name) ==
    {pq \in (1..Len(name)) \X (1..Len(name)) :
        /\ StartsWith(name, ICON_PREFIX)
        /\ Len(ICON_PREFIX) < pq[1] /\ pq[1] < pq[2] /\ pq[2] < Len(name)
        /\ AllDigits(SubSeq(name, Len(ICON_PREFIX) + 1, pq[1] - 1))
        /\ name[pq[1]] = "x"
        /\ AllDigits(SubSeq(name, pq[1] + 1, pq[2] - 1))
        /\ name[pq[2]] = "."}

\* the entries of listing l that match one of the three patterns, in order
RECURSIVE IconEntries(_)
IconEntries(l) ==
    IF l = <<>> THEN <<>>
    ELSE (IF Head(l) = FAVICON_ICO \/ StartsWith(Head(l), APPLE_PREFIX) \/ SizedAs(Head(l)) # {}
          THEN <<Head(l)>> ELSE <<>>) \o IconEntries(Tail(l))

\* C7: on a listing of a folder under /local/, "favicon" is set iff an entry is
\* named favicon.ico; "apple" is set iff an entry begins with favicon-apple-,
\* to the last such entry; "manifest" is there iff an entry reads
\* favicon-<digits>x<digits>.<ext>, with one record per such entry in scan
\* order; entries that match nothing do not affect the result, and with no
\* match the result has no field.
FindIconsClassifies ==
    (scan.done /\ scan.exists /\ TruthySeq(scan.path)
               /\ StartsWith(scan.path[1], LOCAL_PREFIX)) =>
        LET l      == scan.entries
            folder == scan.path[1]
            icons  == scan.icons
            apples == {i \in 1..Len(l) : StartsWith(l[i], APPLE_PREFIX)}
            sized  == {i \in 1..Len(l) : SizedAs(l[i]) # {}}
            \* the k-th sized entry: the one with k - 1 sized entries before it
            nth(k) == CHOOSE i \in sized : Cardinality({j \in sized : j < i}) = k - 1
        IN  /\ scan.raised = ""
            /\ DOMAIN icons \subseteq {"favicon", "apple", "manifest"}
            /\ Has(icons, "favicon") <=> (\E i \in 1..Len(l) : l[i] = FAVICON_ICO)
            /\ Has(icons, "favicon") => icons["favicon"] = WebPath(folder, FAVICON_ICO)
            /\ Has(icons, "apple") <=> (apples # {})
            /\ Has(icons, "apple") =>
                  \E i \in apples : /\ \A j \in apples : j <= i
                                    /\ icons["apple"] = WebPath(folder, l[i])
            /\ Has(icons, "manifest") <=> (sized # {})
            /\ Has(icons, "manifest") =>
                  /\ Len(icons["manifest"]) = Cardinality(sized)
                  /\ \A k \in 1..Len(icons["manifest"]) :
                        \E pq \in SizedAs(l[nth(k)]) :
                           icons["manifest"][k] =
                              [src   |-> WebPath(folder, l[nth(k)]),
                               sizes |-> SubSeq(l[nth(k)], Len(ICON_PREFIX) + 1, pq[2] - 1),
                               type  |-> "image/png"]
            /\ icons = find_icons(LocalPath(folder) :> IconEntries(l), scan.path).icons

\* a scan of two touch icons around a sized icon whose size is written in
\* Arabic-Indic and fullwidth digits: the later touch icon is the one kept
FindIconsClassifiesWitness ==
    /\ scan.done /\ scan.exists /\ scan.path = Some(PathBare)
    /\ scan.entries = <<NameApple180, NameIconArabic, NameAppleTouch>>
    /\ scan.icons["apple"] = WebPath(PathBare, NameAppleTouch)
    /\ Len(scan.icons["manifest"]) = 1
    /\ scan.icons["manifest"][1].sizes = <<"U+0663", "U+0662", "x", "U+FF11", "U+FF12">>
    /\ ~Has(scan.icons, "favicon")

\* C8 as stated: a removal before any activation raises and leaves the host's
\* function and manifest as they were, whether or not async_setup has run.
RemovalBeforeActivationRaises ==
    [][(last'.op = "async_remove_entry" /\ ~activated)
       => (last'.raised # "" /\ getTemplate' = getTemplate /\ manifest' = manifest)]_vars

\* C8 amended: a removal before any activation raises KeyError, leaving the
\* host's function and manifest as they were, when async_setup has not run
\* (hass.data holds no record for the domain); once async_setup has captured
\* the originals it raises nothing and returns True, leaving the host's own
\* function installed, the manifest's icons equal to the host's own and the
\* default names.
RemovalRaisesOnlyWithoutRecord ==
    [][(last'.op = "async_remove_entry" /\ ~activated)
       => IF hassData = None
          THEN last'.raised = "KeyError" /\ getTemplate' = getTemplate /\ manifest' = manifest
          ELSE /\ last'.raised = "" /\ last'.ret
               /\ getTemplate' = OrigGetTemplate
               /\ manifest'.icons.items = HostManifestIcons.items
               /\ DefaultNames(manifest')]_vars

\* a removal raised: no record had been made
RemovalRaisesOnlyWithoutRecordWitness ==
    last.op = "async_remove_entry" /\ last.raised = "KeyError" /\ ~activated /\ hassData = None

\* C9: a request served after a removal, with the host's own function back in
\* place, returns the text the host's own render produced.
RequestsAfterRemovalAreOriginal ==
    (last.op = "request" /\ last.raised = "" /\ activated /\ getTemplate.kind = "original")
        => last.out = Docs[last.doc]

\* C10: async_setup given a section with keys stores the section's keys in the
\* record, installs a closure made from that section, and returns True.
YamlSetupActivates ==
    (last.op = "async_setup" /\ last.arg # EmptyDict) =>
        /\ last.raised = "" /\ last.ret
        /\ \A k \in CONF_KEYS : Get(hassData[1], k) = Get(last.arg, k)
        /\ getTemplate.kind = "_get_template"
        /\ getTemplate.title = Get(last.arg, CONF_TITLE)
        /\ getTemplate.color = Get(last.arg, CONF_ICON_COLOR)
====
